---- MODULE Spec2Model ----
(***************************************************************************)
(* Model of src/main.py, command `place`: discovery of the images of a     *)
(* folder, the on-disk cache of rotated and resized copies, the placement  *)
(* of every image in the Top or Bottom half of an A4 page, and the export  *)
(* of the document.                                                        *)
(*                                                                         *)
(* Conventions.                                                            *)
(*  - A file name is a sequence of character codes, a path a sequence of   *)
(*    names (pathlib's `parts`).                                           *)
(*  - Python floats are modelled as exact rationals <<n, d>> in lowest     *)
(*    terms with d > 0.  All quotients the program forms have operands     *)
(*    below 2^12, so two different quotients never round to one double.    *)
(*  - Library calls (pathlib, Pillow, imagesize, fpdf, click) are modelled *)
(*    by what they do at the call site that uses them.                     *)
(***************************************************************************)
EXTENDS Integers, Sequences, FiniteSets, TLC

(* ------------------------------ bounds -------------------------------- *)

\* Largest number of files in the input folder.
MaxImages == 3

\* Largest number of invocations of the command against one cache folder.
MaxRuns == 2

(* --------------------------- exact rationals --------------------------- *)

Abs(n) == IF n < 0 THEN -n ELSE n

RECURSIVE GCD(_, _)
GCD(a, b) == IF b = 0 THEN a ELSE GCD(b, a % b)

\* n / d in lowest terms, d # 0.
Rat(n, d) ==
    LET g == GCD(Abs(n), Abs(d))
        s == IF d < 0 THEN -1 ELSE 1
    IN  <<(s * n) \div g, (s * d) \div g>>

RInt(n) == <<n, 1>>

LCM(a, b) == (a \div GCD(a, b)) * b

RAdd(a, b) ==
    LET l == LCM(a[2], b[2])
    IN  Rat(a[1] * (l \div a[2]) + b[1] * (l \div b[2]), l)

RSub(a, b) == RAdd(a, <<-b[1], b[2]>>)

\* Cross-cancelled first, so that no intermediate product leaves 32 bits.
RMul(a, b) ==
    LET p == Rat(a[1], b[2])
        q == Rat(b[1], a[2])
    IN  <<p[1] * q[1], p[2] * q[2]>>

RDiv(a, b) == RMul(a, Rat(b[2], b[1]))

RLeq(a, b) == RSub(a, b)[1] <= 0

RLess(a, b) == RSub(a, b)[1] < 0

RGeq(a, b) == RLeq(b, a)

(* --------------------------- module constants -------------------------- *)

\* TARGET_SIZE = 2480, 1748
TARGET_WIDTH == 2480

TARGET_HEIGHT == 1748

TARGET_SIZE == <<TARGET_WIDTH, TARGET_HEIGHT>>

\* CONTENT_MAX_WIDTH = 210 - 8
CONTENT_MAX_WIDTH == RInt(210 - 8)

\* CONTENT_MAX_HEIGHT = (297. / 2) - 4
CONTENT_MAX_HEIGHT == RSub(RDiv(RInt(297), RInt(2)), RInt(4))

\* CONTENT_RATIO = float(CONTENT_MAX_WIDTH) / CONTENT_MAX_HEIGHT
CONTENT_RATIO == RDiv(CONTENT_MAX_WIDTH, CONTENT_MAX_HEIGHT)

(* ------------------------------- paths -------------------------------- *)

\* The folder argument, "p".
FolderName == <<112>>

\* The files that may lie under the folder:
\*   p/b.png   p/a/c.jpg   p/a-b/d.JPG   p/a/e.jpeg   p/f.PNG
Candidates ==
    { <<FolderName, <<98, 46, 112, 110, 103>>>>,
      <<FolderName, <<97>>, <<99, 46, 106, 112, 103>>>>,
      <<FolderName, <<97, 45, 98>>, <<100, 46, 74, 80, 71>>>>,
      <<FolderName, <<97>>, <<101, 46, 106, 112, 101, 103>>>>,
      <<FolderName, <<102, 46, 80, 78, 71>>>> }

\* The glob patterns of lines 50-53 without their leading star.
PAT_png == <<46, 112, 110, 103>>

PAT_jpg == <<46, 106, 112, 103>>

PAT_jpeg == <<46, 106, 112, 101, 103>>

PAT_JPG == <<46, 74, 80, 71>>

\* Path.name: the last component.
Name(path) == path[Len(path)]

\* fnmatch of a name against "*" followed by ext, by character code.
EndsWith(name, ext) ==
    /\ Len(name) >= Len(ext)
    /\ \A k \in 1..Len(ext) : name[Len(name) - Len(ext) + k] = ext[k]

\* Path(folder).rglob('*' + ext): the files below the folder whose name matches.
rglob(files, ext) == { f \in files : EndsWith(Name(f), ext) }

\* The orders in which a directory scan may yield the files of S.
Orderings(S) ==
    { s \in [1..Cardinality(S) -> S] : \A a, b \in DOMAIN s : s[a] = s[b] => a = b }

\* str.__lt__: lexicographic by code point, a proper prefix first.
StrLess(a, b) ==
    \E k \in 1..(Len(a) + 1) :
        /\ k <= Len(b)
        /\ \A m \in 1..(k - 1) : a[m] = b[m]
        /\ (k = Len(a) + 1 \/ a[k] < b[k])

\* PurePath.__lt__: compares the lists of components, lexicographic by
\* component, a proper prefix first.
PathLess(a, b) ==
    \E k \in 1..(Len(a) + 1) :
        /\ k <= Len(b)
        /\ \A m \in 1..(k - 1) : a[m] = b[m]
        /\ (k = Len(a) + 1 \/ StrLess(a[k], b[k]))

\* list.insert of x before the first element greater than x.
Insert(x, s) ==
    LET before == { k \in 1..Len(s) : ~PathLess(x, s[k]) }
        n == IF before = {} THEN 0
             ELSE CHOOSE k \in before : \A m \in before : m <= k
    IN  SubSeq(s, 1, n) \o <<x>> \o SubSeq(s, n + 1, Len(s))

RECURSIVE SortFrom(_, _)
SortFrom(done, rest) ==
    IF rest = <<>> THEN done
    ELSE SortFrom(Insert(Head(rest), done), Tail(rest))

\* sorted() left out: the scans' own order.
sorted_left_out(s) == s

\* sorted(...) of line 48.
sorted(s) == SortFrom(<<>>, s)

\* Path.as_posix(): the components joined by "/".
RECURSIVE as_posix(_)
as_posix(path) ==
    IF Len(path) = 1 THEN path[1]
    ELSE as_posix(SubSeq(path, 1, Len(path) - 1)) \o <<47>> \o path[Len(path)]

\* Path.suffix: the name from its last dot on, empty when the name has no dot
\* after its first character or ends in one.
suffix(path) ==
    LET name == Name(path)
        dots == { k \in 1..Len(name) : name[k] = 46 }
        last == IF dots = {} THEN 0 ELSE CHOOSE k \in dots : \A m \in dots : m <= k
    IN  IF 1 < last /\ last < Len(name) THEN SubSeq(name, last, Len(name)) ELSE <<>>

\* hashlib.md5(...).hexdigest(), abstracted to a digest of the characters.
RECURSIVE digest(_, _)
digest(h, s) ==
    IF s = <<>> THEN h ELSE digest((h * 131 + Head(s)) % 1000003, Tail(s))

name_hash(path) == digest(7, as_posix(path))

\* (CACHE_FOLDER / name_hash).with_suffix(image_ext): the cache file's name.
cached_path(path) == <<name_hash(path), suffix(path)>>

(* ------------------------- resizing and caching ------------------------ *)

\* What Image.open may find in a source file: a picture of some pixel size
\* <<width, height>>, or data that cannot be decoded (<<0, 0>>).
Corrupt == <<0, 0>>

Pictures ==
    { <<3000, 4000>>, <<4000, 3000>>, <<404, 289>>, <<403, 289>>,
      <<5000, 1000>>, <<1, 3000>> }

\* The comparison of line 80 turned round.
is_portrait_turned(im) == im[1] > im[2]

\* if im.width < im.height: (line 80)
is_portrait(im) == im[1] < im[2]

\* im.rotate(90, expand=True): a quarter turn, the canvas follows.
rotate(im) == <<im[2], im[1]>>

\* math.floor and math.ceil of num / den, num >= 0 and den > 0.
Floor(num, den) == num \div den

Ceil(num, den) == IF num % den = 0 THEN num \div den ELSE (num \div den) + 1

\* Pillow's round_aspect: of floor (lo) and ceil (hi) the first whose key is
\* least, and at least 1.
round_aspect(lo, hi, key_lo, key_hi) ==
    LET best == IF key_lo <= key_hi THEN lo ELSE hi
    IN  IF best < 1 THEN 1 ELSE best

\* A thumbnail that fits the width only.
thumbnail_width_only(im, size) ==
    IF size[1] >= im[1] THEN im
    ELSE <<size[1], Ceil(size[1] * im[2], im[1])>>

\* im.thumbnail(TARGET_SIZE, ...): unchanged when the picture fits, else
\* scaled down to fit, keeping the aspect ratio.
thumbnail(im, size) ==
    LET w == im[1]
        h == im[2]
        x == size[1]
        y == size[2]
        \* x = round_aspect(y * aspect, key = abs(aspect - n / y)); the keys
        \* are scaled by h * y
        xlo == Floor(y * w, h)
        xhi == Ceil(y * w, h)
        \* y = round_aspect(x / aspect, key = 0 if n == 0 else
        \* abs(aspect - x / n)); the keys are scaled by h * ylo * yhi
        ylo == Floor(x * h, w)
        yhi == Ceil(x * h, w)
    IN  IF x >= w /\ y >= h THEN im
        ELSE IF x * h >= w * y
             THEN <<round_aspect(xlo, xhi, Abs(w * y - xlo * h), Abs(w * y - xhi * h)), y>>
             ELSE <<x, round_aspect(ylo, yhi,
                                    IF ylo = 0 THEN 0 ELSE Abs(w * ylo - x * h) * yhi,
                                    Abs(w * yhi - x * h) * ylo)>>

\* Lines 79-84 on a decodable picture: what im.save writes to the cache.
normalize(im) ==
    thumbnail(IF is_portrait(im) THEN rotate(im) ELSE im, TARGET_SIZE)

(* ------------------------------ placement ------------------------------ *)

\* The parity of line 66 off by one.
is_top_odd(i) == i % 2 = 1

\* is_top = i % 2 == 0 (line 66)
is_top(i) == i % 2 = 0

\* Lines 73 and 75: the centre of the slot.
center(i) ==
    IF is_top(i) THEN <<RInt(105), RDiv(RInt(148), RInt(2))>>
    ELSE <<RInt(105), RAdd(RInt(148), RDiv(RInt(148), RInt(2)))>>

\* ratio = float(width) / height (line 87)
ratio(dims) == Rat(dims[1], dims[2])

\* Line 94 with a strict comparison.
is_wider_strict(dims) == RLess(CONTENT_RATIO, ratio(dims))

\* Line 94 with the comparison turned round.
is_wider_turned(dims) == RLeq(ratio(dims), CONTENT_RATIO)

\* is_wider = ratio >= CONTENT_RATIO (line 94)
is_wider(dims) == RGeq(ratio(dims), CONTENT_RATIO)

\* FPDF.image: the one of w, h that is not given (0) follows from the
\* picture's pixel size.
fpdf_image(dims, x, y, w, h) ==
    [x |-> x, y |-> y,
     w |-> IF w = RInt(0) THEN RDiv(RMul(h, RInt(dims[1])), RInt(dims[2])) ELSE w,
     h |-> IF h = RInt(0) THEN RDiv(RMul(w, RInt(dims[2])), RInt(dims[1])) ELSE h,
     w_arg |-> w, h_arg |-> h]

\* Lines 98 and 106 without their division by two.
placement_no_half(i, dims) ==
    LET center_x == center(i)[1]
        center_y == center(i)[2]
    IN  IF is_wider(dims)
        THEN fpdf_image(dims,
                 RSub(center_x, RDiv(CONTENT_MAX_WIDTH, RInt(2))),
                 RSub(center_y, RDiv(CONTENT_MAX_WIDTH, ratio(dims))),
                 CONTENT_MAX_WIDTH, RInt(0))
        ELSE fpdf_image(dims,
                 RSub(center_x, RMul(CONTENT_MAX_HEIGHT, ratio(dims))),
                 RSub(center_y, RDiv(CONTENT_MAX_HEIGHT, RInt(2))),
                 RInt(0), CONTENT_MAX_HEIGHT)

\* Lines 91-113: the rectangle the cached picture is drawn in.
placement(i, dims) ==
    LET center_x == center(i)[1]
        center_y == center(i)[2]
    IN  IF is_wider(dims)
        THEN fpdf_image(dims,
                 RSub(center_x, RDiv(CONTENT_MAX_WIDTH, RInt(2))),
                 RSub(center_y, RDiv(RDiv(CONTENT_MAX_WIDTH, ratio(dims)), RInt(2))),
                 CONTENT_MAX_WIDTH, RInt(0))
        ELSE fpdf_image(dims,
                 RSub(center_x, RDiv(RMul(CONTENT_MAX_HEIGHT, ratio(dims)), RInt(2))),
                 RSub(center_y, RDiv(CONTENT_MAX_HEIGHT, RInt(2))),
                 RInt(0), CONTENT_MAX_HEIGHT)

(* -------------------------------- state -------------------------------- *)

VARIABLES
    folder,      \* the files under the input folder
    cache_dir,   \* whether the directory CACHE_FOLDER exists
    cache,       \* the files of CACHE_FOLDER: cache name -> pixel size
    large,       \* the pages of the file out + ".large", -1 while there is none
    runs,        \* the invocations so far
    arg_exists,  \* whether the folder argument of this run names a folder
    pc,          \* "idle", "loop", or how the run ended: "done", "aborted", "usage"
    images,      \* line 48
    i,           \* the index of the next image
    pages,       \* the pages of pdf, each the pictures drawn on it
    opened,      \* per image of this run, whether add_page was called for it
    last,        \* what the last iteration did with the cache
    decoded,     \* per source, how often lines 79-84 ran to the end
    first,       \* per source, the size its first resolution returned
    created,     \* what this run has created in the file system
    seen         \* the values line 48 has given images so far

vars ==
    <<folder, cache_dir, cache, large, runs, arg_exists, pc, images, i,
      pages, opened, last, decoded, first, created, seen>>

NoOp == [kind |-> "none", src |-> Corrupt, rotated |-> FALSE, dims |-> Corrupt]

Stopped == {"idle", "done", "aborted", "usage"}

\* The exit status of the process: 0 at the end of main(), 1 for an uncaught
\* exception, 2 for click's usage error, -1 while it runs.
exit_status ==
    CASE pc = "done" -> 0
      [] pc = "aborted" -> 1
      [] pc = "usage" -> 2
      [] OTHER -> -1

Init ==
    /\ folder \in { S \in SUBSET Candidates : Cardinality(S) <= MaxImages }
    /\ cache_dir = FALSE
    /\ cache = <<>>
    /\ large = -1
    /\ runs = 0
    /\ arg_exists = TRUE
    /\ pc = "idle"
    /\ images = <<>>
    /\ i = 0
    /\ pages = <<>>
    /\ opened = <<>>
    /\ last = NoOp
    /\ decoded = [f \in Candidates |-> 0]
    /\ first = [f \in Candidates |-> Corrupt]
    /\ created = {}
    /\ seen = <<>>

(* ------------------------------ operations ----------------------------- *)

\* click.Path() without exists=True.
folder_accepted_any(exists) == TRUE

\* click.Path(exists=True) (line 40): whether the argument is accepted.
folder_accepted(exists) == exists

\* Lines 48-54: the four scans chained, then sorted.
discover(l1, l2, l3, l4) == sorted(l1 \o l2 \o l3 \o l4)

\* A cache that is never found.
exists_never(key) == FALSE

\* cached_path.exists() (line 77)
exists(key) == key \in DOMAIN cache

\* A loop that skips the picture it cannot decode.
on_error_skip == "loop"

\* The state an uncaught exception of the loop body leaves the run in.
on_error == "aborted"

\* Starting the program: the import creates CACHE_FOLDER (line 26), click
\* checks the argument, and place runs up to its loop (lines 46-59).
Invoke(given) ==
    /\ pc \in Stopped
    /\ runs < MaxRuns
    /\ runs' = runs + 1
    /\ arg_exists' = given
    /\ cache_dir' = TRUE
    /\ created' = IF cache_dir THEN {} ELSE {"cache_dir"}
    /\ i' = 0
    /\ pages' = <<>>
    /\ opened' = <<>>
    /\ last' = NoOp
    /\ IF folder_accepted(given)
       THEN /\ LET files == IF given THEN folder ELSE {}
               IN  \E l1 \in Orderings(rglob(files, PAT_png)),
                      l2 \in Orderings(rglob(files, PAT_jpg)),
                      l3 \in Orderings(rglob(files, PAT_jpeg)),
                      l4 \in Orderings(rglob(files, PAT_JPG)) :
                       images' = discover(l1, l2, l3, l4)
            /\ seen' = Append(seen, images')
            /\ pc' = "loop"
       ELSE /\ images' = <<>>
            /\ seen' = seen
            /\ pc' = "usage"
    /\ UNCHANGED <<folder, cache, large, decoded, first>>

\* Lines 66-75: the page the picture of index i goes on.
open_page == IF is_top(i) THEN Append(pages, <<>>) ELSE pages

\* Lines 86-113 for a cache file of pixel size dims; pdf.image raises when
\* no page is open.
Draw(path, dims) ==
    LET pg == open_page
        n == Len(pg)
        item == [idx |-> i, path |-> path, dims |-> dims] @@ placement(i, dims)
    IN  IF n = 0
        THEN /\ pages' = pg
             /\ pc' = on_error
             /\ i' = i
        ELSE /\ pages' = [pg EXCEPT ![n] = Append(@, item)]
             /\ pc' = "loop"
             /\ i' = i + 1

\* One iteration of the loop (lines 61-113) whose cache file exists.
PlaceCached ==
    /\ pc = "loop"
    /\ i < Len(images)
    /\ LET path == images[i + 1]
           key == cached_path(path)
       IN  /\ exists(key)
           /\ opened' = Append(opened, is_top(i))
           /\ last' = [kind |-> "hit", src |-> Corrupt, rotated |-> FALSE,
                       dims |-> cache[key]]
           /\ first' = IF first[path] = Corrupt
                       THEN [first EXCEPT ![path] = cache[key]] ELSE first
           /\ Draw(path, cache[key])
    /\ UNCHANGED <<folder, cache_dir, cache, large, runs, arg_exists, images,
                   decoded, created, seen>>

\* One iteration whose cache file is missing and whose source decodes to one
\* of the pictures of sources.
Resize(sources) ==
    /\ pc = "loop"
    /\ i < Len(images)
    /\ LET path == images[i + 1]
           key == cached_path(path)
       IN  /\ ~exists(key)
           /\ \E im \in sources :
                LET dims == normalize(im)
                IN  /\ cache' = (key :> dims) @@ cache
                    /\ decoded' = [decoded EXCEPT ![path] = @ + 1]
                    /\ last' = [kind |-> "miss", src |-> im,
                                rotated |-> is_portrait(im), dims |-> dims]
                    /\ first' = IF first[path] = Corrupt
                                THEN [first EXCEPT ![path] = dims] ELSE first
                    /\ Draw(path, dims)
           /\ opened' = Append(opened, is_top(i))
           /\ created' = created \cup {"cache_file"}
    /\ UNCHANGED <<folder, cache_dir, large, runs, arg_exists, images, seen>>

PlaceResized == Resize(Pictures)

\* One iteration whose cache file is missing and whose source does not
\* decode: the exception of lines 79-83 leaves place.
DecodeFails ==
    /\ pc = "loop"
    /\ i < Len(images)
    /\ ~exists(cached_path(images[i + 1]))
    /\ opened' = Append(opened, is_top(i))
    /\ pages' = open_page
    /\ last' = [NoOp EXCEPT !.kind = "fail"]
    /\ pc' = on_error
    /\ i' = IF on_error = "loop" THEN i + 1 ELSE i
    /\ UNCHANGED <<folder, cache_dir, cache, large, runs, arg_exists, images,
                   decoded, first, created, seen>>

\* Lines 114-123: FPDF.output closes the document, which adds a page to a
\* document without one, and writes it; gs then writes the final file, or
\* fails unnoticed.
Export ==
    /\ pc = "loop"
    /\ i = Len(images)
    /\ pages' = IF pages = <<>> THEN <<<<>>>> ELSE pages
    /\ large' = Len(pages')
    /\ \E gs \in BOOLEAN :
        created' = created \cup {"large"} \cup (IF gs THEN {"out"} ELSE {})
    /\ pc' = "done"
    /\ UNCHANGED <<folder, cache_dir, cache, runs, arg_exists, images, i, opened,
                   last, decoded, first, seen>>

Next ==
    \/ \E given \in BOOLEAN : Invoke(given)
    \/ PlaceCached
    \/ PlaceResized
    \/ DecodeFails
    \/ Export

Spec == Init /\ [][Next]_vars

(* ------------------------ one run over two sources --------------------- *)

\* The widths and heights of the sources of SpecGrid.
Sizes == {1, 289, 403, 404, 1000, 1748, 1749, 2480, 2481, 3000, 4000, 5000}

Grid == Sizes \X Sizes

\* The last run the bounds allow, over p/a/c.jpg and p/b.png with an empty
\* cache.
InitGrid ==
    /\ folder = { <<FolderName, <<97>>, <<99, 46, 106, 112, 103>>>>,
                  <<FolderName, <<98, 46, 112, 110, 103>>>> }
    /\ cache_dir = FALSE
    /\ cache = <<>>
    /\ large = -1
    /\ runs = MaxRuns - 1
    /\ arg_exists = TRUE
    /\ pc = "idle"
    /\ images = <<>>
    /\ i = 0
    /\ pages = <<>>
    /\ opened = <<>>
    /\ last = NoOp
    /\ decoded = [f \in Candidates |-> 0]
    /\ first = [f \in Candidates |-> Corrupt]
    /\ created = {}
    /\ seen = <<>>

PlaceResizedGrid == Resize(Grid)

NextGrid ==
    \/ Invoke(TRUE)
    \/ PlaceResizedGrid
    \/ Export

\* The run of place over two sources of any size of Grid.
SpecGrid == InitGrid /\ [][NextGrid]_vars

(* ------------------------------- properties ---------------------------- *)

\* ceil(n / 2)
HalfUp(n) == (n + 1) \div 2

\* The pictures drawn so far, each with its page and its place on the page.
Drawn ==
    UNION { { [page |-> p, place |-> k, item |-> pages[p][k]] :
                k \in 1..Len(pages[p]) } : p \in 1..Len(pages) }

\* Every picture drawn so far went to the page that the picture of the even
\* index at or before its own opened, an even index first and an odd second.
EvenOpensOddFollows ==
    /\ \A k \in 1..Len(opened) : opened[k] <=> ((k - 1) % 2 = 0)
    /\ \A d \in Drawn :
        /\ d.page = (d.item.idx \div 2) + 1
        /\ d.place = (d.item.idx % 2) + 1
    /\ pc = "loop" => Len(pages) = HalfUp(i)

\* C1 as stated: the picture of index i opens a page iff i is even, an odd
\* one is drawn on its predecessor's page, and the document of a run over N
\* pictures (N >= 0) that did not fail has ceil(N / 2) pages.
C1_AsStated ==
    /\ EvenOpensOddFollows
    /\ pc = "done" => large = HalfUp(Len(images))

\* C1 amended: the same, but for N >= 1; the document of a run over no
\* picture has the one empty page that FPDF adds when it closes a document
\* without pages.
C1_SlotAlternation ==
    /\ EvenOpensOddFollows
    /\ (pc = "done" /\ Len(images) >= 1) => large = HalfUp(Len(images))
    /\ (pc = "done" /\ Len(images) = 0) => large = 1

C1_Witness ==
    /\ pc = "done"
    /\ Len(images) = 3
    /\ large = 2
    /\ opened = <<TRUE, FALSE, TRUE>>

\* C2: the work of lines 79-84 is done once per source, by its first
\* resolution, whatever the number of runs; the cache file then stays, and
\* every later resolution returns the size the first one returned.
C2_CacheIdempotence ==
    /\ \A f \in Candidates :
        /\ decoded[f] = IF first[f] # Corrupt THEN 1 ELSE 0
        /\ first[f] # Corrupt =>
            /\ cached_path(f) \in DOMAIN cache
            /\ cache[cached_path(f)] = first[f]
    /\ (last.kind \in {"hit", "miss"} /\ i >= 1) =>
        last.dims = first[images[i]]

C2_Witness ==
    /\ runs = 2
    /\ i >= 1
    /\ last.kind = "hit"
    /\ decoded[images[i]] = 1
    /\ last.dims = first[images[i]]

\* C3: on a cache miss a source higher than wide is rotated and its cached
\* copy is at least as wide as high; a source at least as wide as high is not
\* rotated.
C3_RotationNormalization ==
    last.kind = "miss" =>
        /\ last.src[2] > last.src[1] =>
            (last.rotated /\ last.dims[1] >= last.dims[2])
        /\ last.src[1] >= last.src[2] => ~last.rotated
        /\ i >= 1 => cache[cached_path(images[i])] = last.dims

C3_Witness ==
    /\ last.kind = "miss"
    /\ last.src = <<3000, 4000>>
    /\ last.rotated
    /\ last.dims = <<2331, 1748>>

\* C4: the cached copy written on a miss is at most 2480 wide and 1748 high,
\* and no wider and no higher than the source after its rotation.
C4_DownscaleOnly ==
    last.kind = "miss" =>
        LET turned == IF last.src[2] > last.src[1]
                      THEN <<last.src[2], last.src[1]>> ELSE last.src
        IN  /\ last.dims[1] <= 2480
            /\ last.dims[2] <= 1748
            /\ last.dims[1] >= 1
            /\ last.dims[2] >= 1
            /\ last.dims[1] <= turned[1]
            /\ last.dims[2] <= turned[2]

C4_Witness ==
    /\ last.kind = "miss"
    /\ last.src = <<5000, 1000>>
    /\ last.dims = <<2480, 496>>

\* C5: a cached picture W x H is placed by its width (w = 202, no h) iff
\* W / H >= 202 / 144.5, that is 289 W >= 404 H, by its height (h = 144.5,
\* no w) otherwise; a picture of exactly that ratio is placed by its width.
C5_BranchSelection ==
    \A d \in Drawn :
        LET it == d.item
            wide == 289 * it.dims[1] >= 404 * it.dims[2]
        IN  /\ wide => (it.w_arg = <<202, 1>> /\ it.h_arg = <<0, 1>>)
            /\ ~wide => (it.w_arg = <<0, 1>> /\ it.h_arg = <<289, 2>>)

C5_Witness ==
    \E d \in Drawn :
        /\ 289 * d.item.dims[1] = 404 * d.item.dims[2]
        /\ d.item.w_arg = <<202, 1>>
        /\ d.item.h_arg = <<0, 1>>

\* C6: the rectangle a picture is drawn in has the picture's ratio of width
\* to height, and its centre is (105, 74) for an even index and (105, 222)
\* for an odd one.
C6_RatioAndCentre ==
    \A d \in Drawn :
        LET it == d.item
        IN  /\ RDiv(it.w, it.h) = Rat(it.dims[1], it.dims[2])
            /\ RAdd(it.x, RDiv(it.w, <<2, 1>>)) = <<105, 1>>
            /\ RAdd(it.y, RDiv(it.h, <<2, 1>>)) =
                  IF it.idx % 2 = 0 THEN <<74, 1>> ELSE <<222, 1>>

C6_Witness ==
    \E d, e \in Drawn :
        /\ d.page = e.page
        /\ d.place = 1
        /\ e.place = 2
        /\ d.item.w_arg = <<202, 1>>
        /\ e.item.h_arg = <<289, 2>>
        /\ 289 * d.item.dims[1] > 404 * d.item.dims[2]
        /\ RAdd(e.item.y, RDiv(e.item.h, <<2, 1>>)) = <<222, 1>>

\* C7: when the source of index k does not decode, the run ends there: no
\* picture of index k or more is drawn, the loop and the export are over, and
\* the run writes neither the .large file nor the final file.
C7_DecodeFailureIsFatal ==
    last.kind = "fail" =>
        /\ pc = "aborted"
        /\ exit_status # 0
        /\ Len(opened) = i + 1
        /\ \A d \in Drawn : d.item.idx < i
        /\ created \cap {"large", "out"} = {}
        /\ ~ENABLED (PlaceCached \/ PlaceResized \/ DecodeFails \/ Export)

C7_Witness ==
    /\ last.kind = "fail"
    /\ pc = "aborted"
    /\ i = 1
    /\ Len(images) = 3
    /\ Cardinality(Drawn) = 1

\* C8 as stated: a run whose folder argument names no folder fails with a
\* status other than zero before discovery, caching and export, and creates
\* nothing in the file system.
C8_AsStated ==
    (pc # "idle" /\ ~arg_exists) =>
        /\ pc = "usage"
        /\ exit_status # 0
        /\ images = <<>>
        /\ pages = <<>>
        /\ created = {}

\* C8 amended: such a run writes no file (no cache file, no .large file, no
\* final file); all it may create is the cache directory, which the import
\* of the module makes when it is missing, before the argument is checked.
C8_MissingFolder ==
    (pc # "idle" /\ ~arg_exists) =>
        /\ pc = "usage"
        /\ exit_status # 0
        /\ images = <<>>
        /\ pages = <<>>
        /\ created \subseteq {"cache_dir"}
        /\ cache_dir
        /\ ~ENABLED (PlaceCached \/ PlaceResized \/ DecodeFails \/ Export)

C8_Witness ==
    /\ pc = "usage"
    /\ ~arg_exists
    /\ created = {"cache_dir"}
    /\ cache = <<>>
    /\ large = -1

C10_InsideContentBox ==
    /\ \A d \in Drawn :
        LET it == d.item
            right == RAdd(it.x, it.w)
            bottom == RAdd(it.y, it.h)
            top_slot == it.idx % 2 = 0
        IN  /\ RLess(<<0, 1>>, it.w)
            /\ RLess(<<0, 1>>, it.h)
            /\ RLeq(it.w, <<202, 1>>)
            /\ RLeq(it.h, <<289, 2>>)
            /\ RLeq(<<4, 1>>, it.x)
            /\ RLeq(right, <<206, 1>>)
            /\ RLeq(IF top_slot THEN <<7, 4>> ELSE <<599, 4>>, it.y)
            /\ RLeq(bottom, IF top_slot THEN <<585, 4>> ELSE <<1177, 4>>)
            /\ top_slot => RLess(bottom, <<148, 1>>)
            /\ ~top_slot => RLess(<<148, 1>>, it.y)
            /\ RLeq(<<0, 1>>, it.x)
            /\ RLeq(<<0, 1>>, it.y)
            /\ RLeq(right, <<210, 1>>)
            /\ RLeq(bottom, <<297, 1>>)
    /\ \A d, e \in Drawn :
        (d.page = e.page /\ d.place < e.place) =>
            RLeq(RAdd(d.item.y, d.item.h), e.item.y)

C10_Witness ==
    \E d, e \in Drawn :
        /\ d.page = e.page
        /\ d.place = 1
        /\ e.place = 2
        /\ d.item.h = <<289, 2>>
        /\ e.item.w = <<202, 1>>
        /\ e.item.dims = <<2480, 1>>

====
